---- MODULE Spec2Model ----
(***************************************************************************)
(* The boa command-line shell (boa_cli/src/main.rs): file mode, the        *)
(* interactive read-validate-dispatch loop, the history store, the dump    *)
(* pipeline and the engine adapter.                                        *)
(*                                                                         *)
(* Text is a sequence of chunks.  A chunk is a piece of text typed at once; *)
(* two different chunk sequences are two different strings, so equality of *)
(* lines is equality of sequences.                                         *)
(***************************************************************************)
EXTENDS Integers, Sequences, FiniteSets, TLC

\* ---------------------------------------------------------------- bounds
\* chunks typed in one interactive session (newlines of continuation included)
MaxChunks == 3
\* lines submitted in one interactive session
MaxLines == 3
\* source files on the command line
MaxFiles == 2
\* length of the buffers handed to the validator in SpecValidate
MaxBuf == 5
\* length of the lines handed to the highlighter in SpecHighlight
MaxHl == 4

\* ---------------------------------------------------------------- text
NL == "\n"
SP == " "
LetX == "let x = 1;"
UseX == "x + 1;"
Bad == "@"
\* main.rs:231, the literal the loop compares a line with
ExitCmd == <<".exit">>

Openers == {"(", "[", "{"}
Closers == {")", "]", "}"}
Whitespace == {NL, SP}

\* what a user types in the interactive session
Keys == {"(", ")", ".exit", LetX, UseX, Bad, SP}
\* what the validator is handed in SpecValidate
VChunks == Openers \cup Closers \cup {NL}

SeqsUpTo(S, n) == UNION {[1..k -> S] : k \in 0..n}

Last(s) == s[Len(s)]
Front(s) == SubSeq(s, 1, Len(s) - 1)

\* str::trim_end (main.rs:242): drop trailing whitespace
RECURSIVE trim_end(_)
trim_end(s) ==
    IF s # <<>> /\ Last(s) \in Whitespace THEN trim_end(Front(s)) ELSE s

\* ---------------------------------------------------------------- options
DumpFormat == {"Debug", "Json", "JsonPretty"}
\* Option<Option<DumpFormat>>: flag absent / flag alone / flag with a format
NoFlag == [is_some |-> FALSE, format |-> "None"]
Flag(f) == [is_some |-> TRUE, format |-> f]
FlagValues == {NoFlag} \cup {Flag(f) : f \in DumpFormat \cup {"None"}}

\* the files of the file system the command line may name
ReadableFiles == {"let.js", "use.js", "bad.js"}
FileNames == ReadableFiles \cup {"gone.js"}
\* fs::read_to_string (main.rs:196)
read_to_string(f) ==
    CASE f = "let.js" -> [ok |-> TRUE, text |-> <<LetX, NL>>]
      [] f = "use.js" -> [ok |-> TRUE, text |-> <<UseX>>]
      [] f = "bad.js" -> [ok |-> TRUE, text |-> <<"(", UseX>>]
      [] OTHER -> [ok |-> FALSE, text |-> <<>>]

\* Opt::from_args (main.rs:66-95,189): dump_tokens conflicts with dump_ast.
\* The command lines checked: with files, every flag value; without files,
\* no flag, a token dump with a format and a tree dump without one
Opts ==
    {o \in [files : SeqsUpTo(FileNames, MaxFiles),
            dump_tokens : FlagValues,
            dump_ast : FlagValues] :
        /\ ~(o.dump_tokens.is_some /\ o.dump_ast.is_some)
        /\ o.files = <<>> =>
              /\ o.dump_tokens \in {NoFlag, Flag("Json")}
              /\ o.dump_ast \in {NoFlag, Flag("None")}}

has_dump_flag_And(a) == a.dump_tokens.is_some /\ a.dump_ast.is_some
\* Opt::has_dump_flag (main.rs:99-101)
has_dump_flag(a) == a.dump_tokens.is_some \/ a.dump_ast.is_some

\* ---------------------------------------------------------------- engine
\* Result<T, E> with both payloads sequences of chunks
Ok(v) == [ok |-> TRUE, val |-> v]
Err(e) == [ok |-> FALSE, val |-> e]

\* boa::syntax::lexer::Lexer::lex: whitespace separates tokens, "@" is no token
Lexer_lex(src) ==
    IF \E i \in 1..Len(src) : src[i] = Bad
    THEN Err(<<"unexpected character">>)
    ELSE Ok(SelectSeq(src, LAMBDA c : c \notin Whitespace))

\* boa::syntax::parser::Parser::parse_all: a list of statements
Parser_parse_all(tokens) ==
    IF \E i \in 1..Len(tokens) : tokens[i] \notin {LetX, UseX}
    THEN Err(<<"unexpected token">>)
    ELSE Ok(tokens)

\* boa::exec::Interpreter::run: statements run in order against the bindings
\* of the realm; the first failing statement ends the run and what ran before
\* it stays bound
RECURSIVE Interpreter_run(_, _, _)
Interpreter_run(bindings, stmts, last) ==
    IF stmts = <<>> THEN [engine |-> bindings, result |-> Ok(last)]
    ELSE IF Head(stmts) = LetX
         THEN Interpreter_run(bindings \cup {"x"}, Tail(stmts), <<"undefined">>)
         ELSE IF "x" \in bindings
              THEN Interpreter_run(bindings, Tail(stmts), <<"2">>)
              ELSE [engine |-> bindings, result |-> Err(<<"ReferenceError: x">>)]

\* Realm::create, Interpreter::new (main.rs:191-193)
Interpreter_new == {}

\* boa::forward_val: lex, parse, run; a source that does not parse runs nothing
forward_val(eng, src) ==
    LET toks == Lexer_lex(src) IN
    IF ~toks.ok THEN [engine |-> eng, result |-> Err(toks.val)]
    ELSE LET ast == Parser_parse_all(toks.val) IN
         IF ~ast.ok THEN [engine |-> eng, result |-> Err(ast.val)]
         ELSE Interpreter_run(eng, ast.val, <<"undefined">>)

\* ---------------------------------------------------------------- dump
\* lex_source (main.rs:130-136)
lex_source(src) ==
    LET r == Lexer_lex(src) IN
    IF r.ok THEN r ELSE Err(<<"SyntaxError: ">> \o r.val)

\* parse_tokens (main.rs:142-148)
parse_tokens(tokens) ==
    LET r == Parser_parse_all(tokens) IN
    IF r.ok THEN r ELSE Err(<<"ParsingError: ">> \o r.val)

\* one write to a stream: the text and whether a newline ends it
Written(text, nl) == [text |-> text, nl |-> nl]

\* the match on the format (main.rs:158-168, 172-182)
Serialized(flag, what) ==
    CASE flag.format = "Json" -> <<"json">> \o what
      [] flag.format = "JsonPretty" -> <<"json_pretty">> \o what
      [] OTHER -> <<"{:#?}">> \o what

dump_TokensFirst(src, a) ==
    LET tokens == lex_source(src) IN
    IF ~tokens.ok THEN [res |-> tokens, out |-> <<>>]
    ELSE LET shownTokens == <<Written(Serialized(a.dump_tokens, tokens.val), TRUE)>> IN
         IF a.dump_tokens.is_some
         THEN [res |-> Ok(<<>>), out |-> shownTokens]
         ELSE LET ast == parse_tokens(tokens.val) IN
              IF ~ast.ok THEN [res |-> ast, out |-> shownTokens]
              ELSE [res |-> Ok(<<>>),
                    out |-> <<Written(Serialized(a.dump_ast, ast.val), TRUE)>>]
\* dump (main.rs:154-186): the result and what it printed to stdout
dump(src, a) ==
    LET tokens == lex_source(src) IN
    IF ~tokens.ok THEN [res |-> tokens, out |-> <<>>]
    ELSE IF a.dump_tokens.is_some
         THEN [res |-> Ok(<<>>),
               out |-> <<Written(Serialized(a.dump_tokens, tokens.val), TRUE)>>]
         ELSE IF a.dump_ast.is_some
              THEN LET ast == parse_tokens(tokens.val) IN
                   IF ~ast.ok THEN [res |-> ast, out |-> <<>>]
                   ELSE [res |-> Ok(<<>>),
                         out |-> <<Written(Serialized(a.dump_ast, ast.val), TRUE)>>]
              ELSE [res |-> Ok(<<>>), out |-> <<>>]

\* ---------------------------------------------------------------- validator
Matches(o, c) ==
    \/ o = "(" /\ c = ")"
    \/ o = "[" /\ c = "]"
    \/ o = "{" /\ c = "}"

\* rustyline MatchingBracketValidator::validate: one scan with a stack of the
\* open symbols
RECURSIVE validate_brackets(_, _)
validate_brackets(input, stack) ==
    IF input = <<>>
    THEN IF stack = <<>> THEN "Valid" ELSE "Incomplete"
    ELSE LET c == Head(input) IN
         IF c \in Openers THEN validate_brackets(Tail(input), Append(stack, c))
         ELSE IF c \in Closers
              THEN IF stack # <<>> /\ Matches(Last(stack), c)
                   THEN validate_brackets(Tail(input), Front(stack))
                   ELSE "Invalid"
              ELSE validate_brackets(Tail(input), stack)

MatchingBracketValidator_validate(input) == validate_brackets(input, <<>>)

\* the text after the last newline of the buffer
RECURSIVE LastLineOf(_)
LastLineOf(s) ==
    IF s = <<>> \/ Last(s) = NL THEN <<>> ELSE Append(LastLineOf(Front(s)), Last(s))

RLHelper_validate_LastLine(input) == MatchingBracketValidator_validate(LastLineOf(input))
\* RLHelper::validate (main.rs:268-271): the whole buffer goes to the validator
RLHelper_validate(input) == MatchingBracketValidator_validate(input)

\* ---------------------------------------------------------------- state
VARIABLES
    args,        \* the parsed command line (main.rs:189)
    engine,      \* the bindings of the one Interpreter (main.rs:193)
    pc,          \* where main is
    fileIdx,     \* the file the for loop is at (main.rs:195)
    store,       \* the file .boa_history
    history,     \* the editor's in-memory history
    loaded,      \* how many entries load_history brought in
    buffer,      \* the text typed into the editor since readline was called
    validation,  \* what the validator said at the last Enter of this readline call,
                 \* "none" after a key and once readline has returned
    lastRead,    \* what the last readline call returned
    line,        \* the text being dispatched: a source file or a submitted line
    dropped,     \* whether the readline that was cut short dropped a non-empty buffer
    dumpRuns,    \* calls of dump for the current input
    evalRuns,    \* calls of forward_val for the current input
    result,      \* what dump or forward_val returned for the current input
    stdout,      \* written to standard output for the current input
    stderr,      \* written to standard error for the current input
    flush,       \* the outcome of save_history
    exit,        \* how main ended
    prior,       \* which run of the program this is, and the lines the run
                 \* before it submitted
    shown        \* what the highlighter made of the buffer for the display

vars == <<args, engine, pc, fileIdx, store, history, loaded, buffer, validation,
          lastRead, line, dropped, dumpRuns, evalRuns, result, stdout, stderr,
          flush, exit, prior, shown>>

NoResult == [ok |-> TRUE, val |-> <<"none">>]

\* the history file before the program starts
Stores ==
    {[state |-> "missing", entries |-> <<>>],
     [state |-> "unreadable", entries |-> <<>>],
     [state |-> "ok", entries |-> << <<UseX>> >>]}

RECURSIVE TotalLen(_)
TotalLen(ls) == IF ls = <<>> THEN 0 ELSE Len(Head(ls)) + TotalLen(Tail(ls))

\* the lines this session added to the history
SessionLines == SubSeq(history, loaded + 1, Len(history))
\* the chunks this session holds: the submitted lines and the buffer
SessionChunks == TotalLen(SessionLines) + Len(buffer)
\* the same over this run and the run before it
TypedChunks == TotalLen(prior.lines) + SessionChunks
SubmittedLines == Len(prior.lines) + Len(SessionLines)

\* the first run of the program, nothing on the display
FirstRun == [session |-> 1, lines |-> <<>>]
NotShown == <<>>

\* main.rs:189-193.  The interactive sessions that dump are checked with a
\* history file in place, those that evaluate with every state of the file
Init ==
    /\ args \in Opts
    /\ engine = Interpreter_new
    /\ pc = "files"
    /\ fileIdx = 1
    /\ store \in Stores
    /\ (args.files = <<>> /\ has_dump_flag(args)) => store.state = "ok"
    /\ history = <<>>
    /\ loaded = 0
    /\ buffer = <<>>
    /\ validation = "none"
    /\ lastRead = "none"
    /\ line = <<>>
    /\ dropped = FALSE
    /\ dumpRuns = 0
    /\ evalRuns = 0
    /\ result = NoResult
    /\ stdout = <<>>
    /\ stderr = <<>>
    /\ flush = "none"
    /\ exit = "running"
    /\ prior = FirstRun
    /\ shown = NotShown

\* ---------------------------------------------------------------- file mode
\* main.rs:195-196, read_to_string succeeds
ReadFileOk ==
    /\ pc = "files"
    /\ fileIdx <= Len(args.files)
    /\ read_to_string(args.files[fileIdx]).ok
    /\ line' = read_to_string(args.files[fileIdx]).text
    /\ pc' = "file_dispatch"
    /\ dumpRuns' = 0
    /\ evalRuns' = 0
    /\ result' = NoResult
    /\ stdout' = <<>>
    /\ stderr' = <<>>
    /\ UNCHANGED <<args, prior, shown, engine, fileIdx, store, history, loaded, buffer,
                   validation, lastRead, dropped, flush, exit>>

\* main.rs:196, the ? returns the io::Error from main
ReadFileErr_Skip ==
    /\ pc = "files"
    /\ fileIdx <= Len(args.files)
    /\ ~read_to_string(args.files[fileIdx]).ok
    /\ fileIdx' = fileIdx + 1
    /\ UNCHANGED <<args, prior, shown, engine, pc, store, history, loaded, buffer,
                   validation, lastRead, line, dropped, dumpRuns, evalRuns,
                   result, stdout, stderr, flush, exit>>

ReadFileErr ==
    /\ pc = "files"
    /\ fileIdx <= Len(args.files)
    /\ ~read_to_string(args.files[fileIdx]).ok
    /\ pc' = "done"
    /\ exit' = "Err"
    /\ UNCHANGED <<args, prior, shown, engine, fileIdx, store, history, loaded, buffer,
                   validation, lastRead, line, dropped, dumpRuns, evalRuns,
                   result, stdout, stderr, flush>>

\* main.rs:198-201
DispatchFileDump ==
    /\ pc = "file_dispatch"
    /\ has_dump_flag(args)
    /\ LET d == dump(line, args) IN
        /\ result' = d.res
        /\ stdout' = stdout \o d.out
        /\ stderr' = IF d.res.ok THEN stderr
                     ELSE Append(stderr, Written(d.res.val, TRUE))
    /\ dumpRuns' = dumpRuns + 1
    /\ fileIdx' = fileIdx + 1
    /\ pc' = "files"
    /\ UNCHANGED <<args, prior, shown, engine, store, history, loaded, buffer, validation,
                   lastRead, line, dropped, evalRuns, flush, exit>>

\* main.rs:202-207
DispatchFileEval ==
    /\ pc = "file_dispatch"
    /\ ~has_dump_flag(args)
    /\ LET r == forward_val(engine, line) IN
        /\ engine' = r.engine
        /\ result' = r.result
        /\ stdout' = IF r.result.ok
                     THEN Append(stdout, Written(r.result.val, FALSE))
                     ELSE stdout
        /\ stderr' = IF r.result.ok THEN stderr
                     ELSE Append(stderr, Written(r.result.val, FALSE))
    /\ evalRuns' = evalRuns + 1
    /\ fileIdx' = fileIdx + 1
    /\ pc' = "files"
    /\ UNCHANGED <<args, prior, shown, store, history, loaded, buffer, validation, lastRead,
                   line, dropped, dumpRuns, flush, exit>>

\* main.rs:210,259: files were given, the loop is skipped and main returns Ok
ReturnAfterFiles_ThenLoop ==
    /\ pc = "files"
    /\ fileIdx > Len(args.files)
    /\ args.files # <<>>
    /\ pc' = "readline"
    /\ UNCHANGED <<args, prior, shown, engine, fileIdx, store, history, loaded, buffer,
                   validation, lastRead, line, dropped, dumpRuns, evalRuns,
                   result, stdout, stderr, flush, exit>>

ReturnAfterFiles ==
    /\ pc = "files"
    /\ fileIdx > Len(args.files)
    /\ args.files # <<>>
    /\ pc' = "done"
    /\ exit' = "Ok"
    /\ UNCHANGED <<args, prior, shown, engine, fileIdx, store, history, loaded, buffer,
                   validation, lastRead, line, dropped, dumpRuns, evalRuns,
                   result, stdout, stderr, flush>>

\* ---------------------------------------------------------------- the loop
\* Editor::load_history (main.rs:221): the entries of the file, or an error
load_history(st) == IF st.state = "ok" THEN Ok(st.entries) ELSE Err(<<>>)

\* main.rs:210-227: no files; the editor is built, the result of load_history
\* is dropped by `let _ =`, the helper is set
EnterInteractive_NoLoad ==
    /\ pc = "files"
    /\ args.files = <<>>
    /\ history' = <<>>
    /\ loaded' = 0
    /\ pc' = "readline"
    /\ UNCHANGED <<args, prior, shown, engine, fileIdx, store, buffer, validation, lastRead,
                   line, dropped, dumpRuns, evalRuns, result, stdout, stderr,
                   flush, exit>>

EnterInteractive_Unwrap ==
    /\ pc = "files"
    /\ args.files = <<>>
    /\ LET l == load_history(store) IN
        /\ history' = IF l.ok THEN l.val ELSE <<>>
        /\ loaded' = IF l.ok THEN Len(l.val) ELSE 0
        /\ pc' = IF l.ok THEN "readline" ELSE "done"
        /\ exit' = IF l.ok THEN exit ELSE "panic"
    /\ UNCHANGED <<args, prior, shown, engine, fileIdx, store, buffer, validation, lastRead,
                   line, dropped, dumpRuns, evalRuns, result, stdout, stderr,
                   flush>>

EnterInteractive ==
    /\ pc = "files"
    /\ args.files = <<>>
    /\ LET l == load_history(store) IN
        /\ history' = IF l.ok THEN l.val ELSE <<>>
        /\ loaded' = IF l.ok THEN Len(l.val) ELSE 0
    /\ pc' = "readline"
    /\ UNCHANGED <<args, prior, shown, engine, fileIdx, store, buffer, validation, lastRead,
                   line, dropped, dumpRuns, evalRuns, result, stdout, stderr,
                   flush, exit>>

\* a key is typed inside editor.readline (main.rs:230)
TypeChunk(c) ==
    /\ pc = "readline"
    /\ TypedChunks < MaxChunks
    /\ buffer' = Append(buffer, c)
    /\ validation' = "none"
    /\ UNCHANGED <<args, prior, shown, engine, pc, fileIdx, store, history, loaded, lastRead,
                   line, dropped, dumpRuns, evalRuns, result, stdout, stderr,
                   flush, exit>>

\* Enter inside editor.readline, the validator says Incomplete: the editor
\* puts a newline in the buffer and goes on reading
EnterIncomplete ==
    /\ pc = "readline"
    /\ RLHelper_validate(buffer) = "Incomplete"
    /\ TypedChunks < MaxChunks
    /\ buffer' = Append(buffer, NL)
    /\ validation' = "Incomplete"
    /\ UNCHANGED <<args, prior, shown, engine, pc, fileIdx, store, history, loaded, lastRead,
                   line, dropped, dumpRuns, evalRuns, result, stdout, stderr,
                   flush, exit>>

\* Enter inside editor.readline, the validator says Invalid: the editor shows
\* the message and goes on reading
EnterInvalid ==
    /\ pc = "readline"
    /\ RLHelper_validate(buffer) = "Invalid"
    /\ validation' = "Invalid"
    /\ UNCHANGED <<args, prior, shown, engine, pc, fileIdx, store, history, loaded, buffer,
                   lastRead, line, dropped, dumpRuns, evalRuns, result, stdout,
                   stderr, flush, exit>>

\* Editor::add_history_entry (main.rs:235)
add_history_entry(h, l) == Append(h, l)

ReadlineLine_NoHistory ==
    /\ pc = "readline"
    /\ RLHelper_validate(buffer) = "Valid"
    /\ buffer # ExitCmd
    /\ SubmittedLines < MaxLines
    /\ validation' = "none"
    /\ lastRead' = "Ok"
    /\ line' = buffer
    /\ buffer' = <<>>
    /\ pc' = "dispatch"
    /\ dumpRuns' = 0
    /\ evalRuns' = 0
    /\ result' = NoResult
    /\ stdout' = <<>>
    /\ stderr' = <<>>
    /\ UNCHANGED <<args, prior, shown, engine, fileIdx, store, history, loaded, dropped,
                   flush, exit>>

\* main.rs:230,234-235: Enter, the validator says Valid, readline returns
\* Ok(line) with line other than .exit; the line goes into the history
ReadlineLine_Prepend ==
    /\ pc = "readline"
    /\ RLHelper_validate(buffer) = "Valid"
    /\ buffer # ExitCmd
    /\ SubmittedLines < MaxLines
    /\ validation' = "none"
    /\ lastRead' = "Ok"
    /\ line' = buffer
    /\ buffer' = <<>>
    /\ history' = <<buffer>> \o history
    /\ pc' = "dispatch"
    /\ dumpRuns' = 0
    /\ evalRuns' = 0
    /\ result' = NoResult
    /\ stdout' = <<>>
    /\ stderr' = <<>>
    /\ UNCHANGED <<args, prior, shown, engine, fileIdx, store, loaded, dropped, flush, exit>>

ReadlineLine ==
    /\ pc = "readline"
    /\ RLHelper_validate(buffer) = "Valid"
    /\ buffer # ExitCmd
    /\ SubmittedLines < MaxLines
    /\ validation' = "none"
    /\ lastRead' = "Ok"
    /\ line' = buffer
    /\ buffer' = <<>>
    /\ history' = add_history_entry(history, buffer)
    /\ pc' = "dispatch"
    /\ dumpRuns' = 0
    /\ evalRuns' = 0
    /\ result' = NoResult
    /\ stdout' = <<>>
    /\ stderr' = <<>>
    /\ UNCHANGED <<args, prior, shown, engine, fileIdx, store, loaded, dropped, flush, exit>>

ReadlineExit_AsLine ==
    /\ pc = "readline"
    /\ buffer = ExitCmd
    /\ SubmittedLines < MaxLines
    /\ validation' = "none"
    /\ lastRead' = "Ok"
    /\ line' = buffer
    /\ buffer' = <<>>
    /\ history' = add_history_entry(history, buffer)
    /\ pc' = "dispatch"
    /\ dumpRuns' = 0
    /\ evalRuns' = 0
    /\ result' = NoResult
    /\ stdout' = <<>>
    /\ stderr' = <<>>
    /\ UNCHANGED <<args, prior, shown, engine, fileIdx, store, loaded, dropped, flush, exit>>

\* main.rs:230-231: readline returns Ok(".exit"), the loop breaks
ReadlineExit ==
    /\ pc = "readline"
    /\ RLHelper_validate(buffer) = "Valid"
    /\ buffer = ExitCmd
    /\ validation' = "none"
    /\ lastRead' = "Ok"
    /\ line' = buffer
    /\ buffer' = <<>>
    /\ pc' = "save"
    /\ UNCHANGED <<args, prior, shown, engine, fileIdx, store, history, loaded, dropped,
                   dumpRuns, evalRuns, result, stdout, stderr, flush, exit>>

\* what readline returns when the read is cut short
Signals == {"Interrupted", "Eof"}

ReadlineSignal_Persist(sig) ==
    /\ pc = "readline"
    /\ lastRead' = sig
    /\ dropped' = (buffer # <<>>)
    /\ buffer' = <<>>
    /\ validation' = "none"
    /\ history' = add_history_entry(history, buffer)
    /\ pc' = "save"
    /\ UNCHANGED <<args, prior, shown, engine, fileIdx, store, loaded, line,
                   dumpRuns, evalRuns, result, stdout, stderr, flush, exit>>

\* main.rs:230,232: readline returns Err(Interrupted) or Err(Eof) whatever
\* the buffer holds; the buffer is dropped and the loop breaks
ReadlineSignal(sig) ==
    /\ pc = "readline"
    /\ lastRead' = sig
    /\ dropped' = (buffer # <<>>)
    /\ buffer' = <<>>
    /\ validation' = "none"
    /\ pc' = "save"
    /\ UNCHANGED <<args, prior, shown, engine, fileIdx, store, history, loaded,
                   line, dumpRuns, evalRuns, result, stdout, stderr, flush, exit>>

\* main.rs:249-252: any other error of readline is printed and the loop breaks
ReadlineError_Returns ==
    /\ pc = "readline"
    /\ lastRead' = "Error"
    /\ dropped' = (buffer # <<>>)
    /\ buffer' = <<>>
    /\ validation' = "none"
    /\ stderr' = Append(stderr, Written(<<"Unknown error: ", "{:?}">>, TRUE))
    /\ pc' = "done"
    /\ exit' = "Err"
    /\ UNCHANGED <<args, prior, shown, engine, fileIdx, store, history, loaded,
                   line, dumpRuns, evalRuns, result, stdout, flush>>

ReadlineError ==
    /\ pc = "readline"
    /\ lastRead' = "Error"
    /\ dropped' = (buffer # <<>>)
    /\ buffer' = <<>>
    /\ validation' = "none"
    /\ stderr' = Append(stderr, Written(<<"Unknown error: ", "{:?}">>, TRUE))
    /\ pc' = "save"
    /\ UNCHANGED <<args, prior, shown, engine, fileIdx, store, history, loaded,
                   line, dumpRuns, evalRuns, result, stdout, flush, exit>>

\* main.rs:237-240
DispatchLineDump_AbortOnError ==
    /\ pc = "dispatch"
    /\ has_dump_flag(args)
    /\ LET d == dump(line, args) IN
        /\ result' = d.res
        /\ stdout' = stdout \o d.out
        /\ stderr' = IF d.res.ok THEN stderr
                     ELSE Append(stderr, Written(d.res.val, TRUE))
        /\ pc' = IF d.res.ok THEN "readline" ELSE "done"
        /\ exit' = IF d.res.ok THEN exit ELSE "Err"
    /\ dumpRuns' = dumpRuns + 1
    /\ UNCHANGED <<args, prior, shown, engine, fileIdx, store, history, loaded, buffer,
                   validation, lastRead, line, dropped, evalRuns, flush>>

DispatchLineDump ==
    /\ pc = "dispatch"
    /\ has_dump_flag(args)
    /\ LET d == dump(line, args) IN
        /\ result' = d.res
        /\ stdout' = stdout \o d.out
        /\ stderr' = IF d.res.ok THEN stderr
                     ELSE Append(stderr, Written(d.res.val, TRUE))
    /\ dumpRuns' = dumpRuns + 1
    /\ pc' = "readline"
    /\ UNCHANGED <<args, prior, shown, engine, fileIdx, store, history, loaded, buffer,
                   validation, lastRead, line, dropped, evalRuns, flush, exit>>

DispatchLineEval_FreshEngine ==
    /\ pc = "dispatch"
    /\ ~has_dump_flag(args)
    /\ LET r == forward_val(Interpreter_new, trim_end(line)) IN
        /\ engine' = r.engine
        /\ result' = r.result
        /\ stdout' = IF r.result.ok
                     THEN Append(stdout, Written(r.result.val, TRUE))
                     ELSE stdout
        /\ stderr' = IF r.result.ok THEN stderr
                     ELSE Append(stderr,
                                 Written(<<"Uncaught", ": ">> \o r.result.val, TRUE))
    /\ evalRuns' = evalRuns + 1
    /\ pc' = "readline"
    /\ UNCHANGED <<args, prior, shown, fileIdx, store, history, loaded, buffer, validation,
                   lastRead, line, dropped, dumpRuns, flush, exit>>

\* main.rs:241-246
DispatchLineEval ==
    /\ pc = "dispatch"
    /\ ~has_dump_flag(args)
    /\ LET r == forward_val(engine, trim_end(line)) IN
        /\ engine' = r.engine
        /\ result' = r.result
        /\ stdout' = IF r.result.ok
                     THEN Append(stdout, Written(r.result.val, TRUE))
                     ELSE stdout
        /\ stderr' = IF r.result.ok THEN stderr
                     ELSE Append(stderr,
                                 Written(<<"Uncaught", ": ">> \o r.result.val, TRUE))
    /\ evalRuns' = evalRuns + 1
    /\ pc' = "readline"
    /\ UNCHANGED <<args, prior, shown, fileIdx, store, history, loaded, buffer, validation,
                   lastRead, line, dropped, dumpRuns, flush, exit>>

\* main.rs:256,259: save_history writes the history to the file, main returns Ok
SaveHistoryOk ==
    /\ pc = "save"
    /\ store' = [state |-> "ok", entries |-> history]
    /\ flush' = "ok"
    /\ pc' = "done"
    /\ exit' = "Ok"
    /\ UNCHANGED <<args, prior, shown, engine, fileIdx, history, loaded, buffer, validation,
                   lastRead, line, dropped, dumpRuns, evalRuns, result, stdout,
                   stderr>>

\* main.rs:256: save_history returns Err and unwrap panics
SaveHistoryFails ==
    /\ pc = "save"
    /\ flush' = "failed"
    /\ pc' = "done"
    /\ exit' = "panic"
    /\ UNCHANGED <<args, prior, shown, engine, fileIdx, store, history, loaded, buffer,
                   validation, lastRead, line, dropped, dumpRuns, evalRuns,
                   result, stdout, stderr>>

Next ==
    \/ ReadFileOk
    \/ ReadFileErr
    \/ DispatchFileDump
    \/ DispatchFileEval
    \/ ReturnAfterFiles
    \/ EnterInteractive
    \/ \E c \in Keys : TypeChunk(c)
    \/ EnterIncomplete
    \/ EnterInvalid
    \/ ReadlineLine
    \/ ReadlineExit
    \/ \E sig \in Signals : ReadlineSignal(sig)
    \/ ReadlineError
    \/ DispatchLineDump
    \/ DispatchLineEval
    \/ SaveHistoryOk
    \/ SaveHistoryFails

Spec == Init /\ [][Next]_vars

\* main is sequential: once the loop is left (main.rs:231-232, 251) the
\* save_history call of main.rs:256 is the next statement and it returns
SpecLive == Spec /\ WF_vars(SaveHistoryOk \/ SaveHistoryFails)

\* ---------------------------------------------------------- the highlighter
\* A line is here a sequence of characters (one-character strings).
Upper == {"A", "B", "C", "D", "E", "F", "G", "H", "I", "J", "K", "L", "M",
          "N", "O", "P", "Q", "R", "S", "T", "U", "V", "W", "X", "Y", "Z"}
Lower == {"a", "b", "c", "d", "e", "f", "g", "h", "i", "j", "k", "l", "m",
          "n", "o", "p", "q", "r", "s", "t", "u", "v", "w", "x", "y", "z"}
Digits == {"0", "1", "2", "3", "4", "5", "6", "7", "8", "9"}
\* the range A-z of the pattern: code points 65 to 122, which besides the
\* letters holds the six characters between Z and a
\* (the grave accent, code point 96, cannot be written in a string here)
GraveAccent == "U+0060"
RangeUpperAToLowerZ ==
    Upper \cup {"[", "\\", "]", "^", "_", GraveAccent} \cup Lower
\* [$A-z_] and [$A-z_0-9] (main.rs:349)
IdStart == {"$", "_"} \cup RangeUpperAToLowerZ
IdCont == IdStart \cup Digits
\* [+\-/*%~^!&|=<>,.;:] (main.rs:350)
OpChars == {"+", "-", "/", "*", "%", "~", "^", "!", "&", "|", "=", "<", ">",
            ",", ".", ";", ":"}

\* main.rs:300-339
KEYWORDS ==
    {"break", "case", "catch", "class", "const", "continue",
     "default", "delete", "do", "else", "export", "extends",
     "finally", "for", "function", "if", "import", "instanceof",
     "new", "return", "super", "switch", "this", "throw",
     "try", "typeof", "var", "void", "while", "with",
     "yield", "await", "enum", "let"}

\* the characters typed in SpecHighlight
HlChars == {"d", "o", "n", "u", "l", "1", "$", "^", "[", "+", "("}

\* the text of a run of characters, as a string
RECURSIVE as_str(_)
as_str(cs) == IF cs = <<>> THEN "" ELSE cs[1] \o as_str(Tail(cs))

\* the end of the longest run of identifier characters that starts at i
RECURSIVE RunEnd(_, _)
RunEnd(l, i) ==
    IF i < Len(l) /\ l[i + 1] \in IdCont THEN RunEnd(l, i + 1) ELSE i

\* the pattern tried at position i (main.rs:347-351): the identifier
\* alternative first and as long as it can be, then the operator
\* alternative; no match when neither starts here
MatchAt(l, i) ==
    IF l[i] \in IdStart
    THEN [group |-> "identifier", from |-> i, to |-> RunEnd(l, i)]
    ELSE IF l[i] \in OpChars
    THEN [group |-> "op", from |-> i, to |-> i]
    ELSE [group |-> "none", from |-> i, to |-> i]

\* the successive matches of the pattern in the line, with the characters
\* no match covers in between, in the order replace_all walks them
RECURSIVE Captures(_, _)
Captures(l, i) ==
    IF i > Len(l) THEN <<>>
    ELSE LET m == MatchAt(l, i) IN
         <<[group |-> m.group, text |-> SubSeq(l, m.from, m.to)]>>
             \o Captures(l, m.to + 1)

\* the colored crate: the text between a style marker and the reset marker
Purple == "ESC[35m"
Grey == "ESC[38;2;100;100;100m"
YellowBold == "ESC[1;33m"
Green == "ESC[32m"
Reset == "ESC[0m"
Markers == {Purple, Grey, YellowBold, Green, Reset}
Styled(style, text) == <<style>> \o text \o <<Reset>>

Replacement_DropPlain(caps) ==
    IF caps.group = "identifier"
    THEN LET id == as_str(caps.text) IN
         IF id \in {"true", "false", "null", "Infinity"}
         THEN Styled(Purple, caps.text)
         ELSE IF id = "undefined" THEN Styled(Grey, caps.text)
         ELSE IF id \in KEYWORDS THEN Styled(YellowBold, caps.text)
         ELSE <<>>
    ELSE Styled(Green, caps.text)

\* the closure handed to replace_all (main.rs:354-371)
Replacement(caps) ==
    IF caps.group = "identifier"
    THEN LET id == as_str(caps.text) IN
         IF id \in {"true", "false", "null", "Infinity"}
         THEN Styled(Purple, caps.text)
         ELSE IF id = "undefined" THEN Styled(Grey, caps.text)
         ELSE IF id \in KEYWORDS THEN Styled(YellowBold, caps.text)
         ELSE caps.text
    ELSE Styled(Green, caps.text)

\* Regex::replace_all (main.rs:353-372): each match is replaced by what the
\* closure returns, the text between the matches is copied
RECURSIVE replace_all(_)
replace_all(cs) ==
    IF cs = <<>> THEN <<>>
    ELSE (IF cs[1].group = "none" THEN cs[1].text ELSE Replacement(cs[1]))
             \o replace_all(Tail(cs))

\* LineHighlighter::highlight (main.rs:343-375)
highlight(l) == replace_all(Captures(l, 1))

\* the plain text of a highlighted line
strip(out) == SelectSeq(out, LAMBDA c : c \notin Markers)

\* the editor shows a line (main.rs:283-285), which it does for a line that
\* is not empty (highlight_char, main.rs:295-297)
InitHighlight ==
    /\ args = [files |-> <<>>, dump_tokens |-> NoFlag, dump_ast |-> NoFlag]
    /\ engine = Interpreter_new
    /\ pc = "readline"
    /\ fileIdx = 1
    /\ store = [state |-> "missing", entries |-> <<>>]
    /\ history = <<>>
    /\ loaded = 0
    /\ buffer \in SeqsUpTo(HlChars, MaxHl)
    /\ validation = "none"
    /\ lastRead = "none"
    /\ line = <<>>
    /\ dropped = FALSE
    /\ dumpRuns = 0
    /\ evalRuns = 0
    /\ result = NoResult
    /\ stdout = <<>>
    /\ stderr = <<>>
    /\ flush = "none"
    /\ exit = "running"
    /\ prior = FirstRun
    /\ shown = NotShown

Highlight ==
    /\ buffer # <<>>
    /\ shown = NotShown
    /\ shown' = highlight(buffer)
    /\ UNCHANGED <<args, prior, engine, pc, fileIdx, store, history, loaded, buffer,
                   validation, lastRead, line, dropped, dumpRuns, evalRuns,
                   result, stdout, stderr, flush, exit>>

NextHighlight == Highlight

SpecHighlight == InitHighlight /\ [][NextHighlight]_vars

\* -------------------------------------------------------- two runs, one file
\* The program is run again in the same directory after an interactive run
\* has ended with its history saved: a new process (main.rs:188-193: new engine, new editor) over
\* the .boa_history file the first run left (CLI_HISTORY, main.rs:58).
Restart ==
    /\ pc = "done"
    /\ args.files = <<>>
    /\ flush = "ok"
    /\ prior.session = 1
    /\ prior' = [session |-> 2, lines |-> SessionLines]
    /\ engine' = Interpreter_new
    /\ pc' = "files"
    /\ fileIdx' = 1
    /\ history' = <<>>
    /\ loaded' = 0
    /\ buffer' = <<>>
    /\ validation' = "none"
    /\ lastRead' = "none"
    /\ line' = <<>>
    /\ dropped' = FALSE
    /\ dumpRuns' = 0
    /\ evalRuns' = 0
    /\ result' = NoResult
    /\ stdout' = <<>>
    /\ stderr' = <<>>
    /\ flush' = "none"
    /\ exit' = "running"
    /\ UNCHANGED <<args, shown, store>>

\* interactive runs that evaluate, with and without a history file in place
InitSessions ==
    /\ Init
    /\ args.files = <<>> /\ ~has_dump_flag(args)
    /\ store.state \in {"missing", "ok"}

NextSessions ==
    \/ EnterInteractive
    \/ \E c \in Keys : TypeChunk(c)
    \/ EnterIncomplete
    \/ EnterInvalid
    \/ ReadlineLine
    \/ ReadlineExit
    \/ \E sig \in Signals : ReadlineSignal(sig)
    \/ ReadlineError
    \/ DispatchLineEval
    \/ SaveHistoryOk
    \/ SaveHistoryFails
    \/ Restart

SpecSessions == InitSessions /\ [][NextSessions]_vars

\* ---------------------------------------------------------------- validator alone
\* every buffer of up to MaxBuf grouping symbols and newlines, before Enter
InitValidate ==
    /\ args = [files |-> <<>>, dump_tokens |-> NoFlag, dump_ast |-> NoFlag]
    /\ engine = Interpreter_new
    /\ pc = "readline"
    /\ fileIdx = 1
    /\ store = [state |-> "missing", entries |-> <<>>]
    /\ history = <<>>
    /\ loaded = 0
    /\ buffer \in SeqsUpTo(VChunks, MaxBuf)
    /\ validation = "none"
    /\ lastRead = "none"
    /\ line = <<>>
    /\ dropped = FALSE
    /\ dumpRuns = 0
    /\ evalRuns = 0
    /\ result = NoResult
    /\ stdout = <<>>
    /\ stderr = <<>>
    /\ flush = "none"
    /\ exit = "running"
    /\ prior = FirstRun
    /\ shown = NotShown

\* Enter: the editor asks the helper about the buffer (main.rs:268-271)
Validate ==
    /\ validation = "none"
    /\ validation' = RLHelper_validate(buffer)
    /\ UNCHANGED <<args, prior, shown, engine, pc, fileIdx, store, history, loaded, buffer,
                   lastRead, line, dropped, dumpRuns, evalRuns, result, stdout,
                   stderr, flush, exit>>

NextValidate == Validate

SpecValidate == InitValidate /\ [][NextValidate]_vars

\* ---------------------------------------------------------------- properties
\* a dump flag was given on the command line
DumpConfigured == args.dump_tokens # NoFlag \/ args.dump_ast # NoFlag

\* the grouping symbols of a text, in order
Brackets(s) == SelectSeq(s, LAMBDA c : c \in Openers \cup Closers)

\* a sequence of grouping symbols nested by the grammar  B ::= empty | o B c B
RECURSIVE Balanced(_)
Balanced(s) ==
    \/ s = <<>>
    \/ /\ s[1] \in Openers
       /\ \E j \in 2..Len(s) :
            /\ Matches(s[1], s[j])
            /\ Balanced(SubSeq(s, 2, j - 1))
            /\ Balanced(SubSeq(s, j + 1, Len(s)))

\* closing symbols alone can complete s to a nested sequence: s is a prefix of
\* a validly nested input
Completable(s) ==
    LET k == Len(SelectSeq(s, LAMBDA c : c \in Openers))
             - Len(SelectSeq(s, LAMBDA c : c \in Closers))
    IN  k >= 0 /\ \E t \in [1..k -> Closers] : Balanced(s \o t)

\* a prefix of a validly nested input that still has symbols open
OpenPrefix(s) == Completable(s) /\ ~Balanced(s)

\* what a step does when readline returns a line, and when a line is dispatched
C1_Step ==
    /\ (pc = "readline" /\ pc' # "readline" /\ lastRead' = "Ok" /\ buffer # ExitCmd)
          => /\ history' = Append(history, buffer)
             /\ line' = buffer
             /\ pc' = "dispatch"
             /\ dumpRuns' = 0 /\ evalRuns' = 0
    /\ pc = "dispatch" => (Last(history) = line /\ history' = history)
\* C1: every line readline returns, other than .exit, is appended verbatim to
\* the history before it is dispatched, and the dispatch, whatever its outcome,
\* leaves the history as it is.
C1_AppendedBeforeDispatch == [][C1_Step]_vars
\* a line whose evaluation failed is the last entry of the history
C1_Witness ==
    /\ pc = "readline" /\ lastRead = "Ok"
    /\ evalRuns = 1 /\ ~result.ok
    /\ Len(history) > loaded /\ Last(history) = line

\* what a step does to the run counts, at a dispatch and elsewhere
C2_Step ==
    IF pc \in {"dispatch", "file_dispatch"}
    THEN /\ dumpRuns = 0 /\ evalRuns = 0
         /\ pc' \notin {"dispatch", "file_dispatch"}
         /\ IF DumpConfigured
            THEN dumpRuns' = 1 /\ evalRuns' = 0
            ELSE dumpRuns' = 0 /\ evalRuns' = 1
    ELSE dumpRuns' <= dumpRuns /\ evalRuns' <= evalRuns
\* C2: for every input that is dispatched, a submitted line or a source file,
\* exactly one of dump and forward_val runs and it runs once: dump if a dump
\* flag was given, forward_val otherwise.  Nothing runs outside a dispatch.
C2_ExactlyOneRuns == [][C2_Step]_vars
\* the second line of a session was evaluated, the second file was dumped
C2_Witness ==
    \/ pc = "readline" /\ Len(SessionLines) = 2 /\ evalRuns = 1 /\ dumpRuns = 0
    \/ pc = "files" /\ fileIdx = 3 /\ dumpRuns = 1 /\ evalRuns = 0

\* what a step that ends with .exit as the line read leaves alone
C3_Step ==
    (lastRead' = "Ok" /\ line' = ExitCmd)
       => /\ pc' \in {"save", "done"}
          /\ dumpRuns' = dumpRuns /\ evalRuns' = evalRuns
          /\ engine' = engine /\ stdout' = stdout
\* C3: once readline has returned the line .exit the loop is over, and neither
\* dump nor forward_val runs from then on: the engine and standard output stay
\* as they were.
C3_ExitSkipsDispatch == [][C3_Step]_vars
\* .exit was read after a line had been submitted
C3_Witness ==
    /\ pc = "save" /\ lastRead = "Ok" /\ line = ExitCmd
    /\ Len(SessionLines) > 0

\* what a step that ends with a signal as the last read leaves alone
C4_Step ==
    lastRead' \in Signals
       => /\ pc' \in {"save", "done"}
          /\ history' = history
          /\ dumpRuns' = dumpRuns /\ evalRuns' = evalRuns
          /\ engine' = engine /\ stdout' = stdout
\* C4: once readline has returned Interrupted or Eof the loop is over; the
\* buffer it held is not appended to the history and nothing is dispatched.
C4_SignalDropsBuffer == [][C4_Step]_vars
\* an interrupt arrived while text was typed, and the history was then saved
C4_Witness ==
    /\ lastRead = "Interrupted" /\ dropped
    /\ pc = "done" /\ flush = "ok" /\ store.entries = history

\* C5: a failure of the history flush is returned from main as an error.
C5_FlushFailureIsReturned == flush = "failed" => exit = "Err"

\* what a step does to the bindings; which bindings the past lines made
C6_Step ==
    /\ engine \subseteq engine'
    /\ (pc \in {"dispatch", "file_dispatch"} /\ ~DumpConfigured
          /\ "x" \in engine /\ trim_end(line) = <<UseX>>)
          => result' = Ok(<<"2">>)
    /\ evalRuns' <= 1
C6_Bound ==
    ~DumpConfigured =>
        \A i \in 1..Len(SessionLines) :
            (trim_end(SessionLines[i]) = <<LetX>> /\ (i < Len(SessionLines) \/ pc # "dispatch"))
               => "x" \in engine
\* C6: the bindings of the engine are never rolled back: no step removes one,
\* every binding made by a line that was evaluated is there for the later
\* lines, a failed line in between included, and each line is evaluated once.
C6_BindingsPersist == [][C6_Step]_vars /\ []C6_Bound
\* let x = 1; then a line that fails, then x + 1; which evaluates to 2
C6_Witness ==
    /\ SessionLines = << <<LetX>>, <<Bad>>, <<UseX>> >>
    /\ pc = "readline" /\ result = Ok(<<"2">>)

\* what a step from an open buffer leaves alone; what the session submitted
C7_Step ==
    (pc = "readline" /\ OpenPrefix(Brackets(buffer)))
       => /\ history' = history
          /\ pc' # "dispatch"
          /\ dumpRuns' = dumpRuns /\ evalRuns' = evalRuns
          /\ validation' \in {"none", "Incomplete"}
C7_Submitted ==
    \A i \in 1..Len(SessionLines) : Balanced(Brackets(SessionLines[i]))
\* C7: a buffer that is a prefix of a validly nested input with symbols still
\* open is classified Incomplete at Enter and is not submitted: no step taken
\* with such a buffer changes the history or dispatches, and every line the
\* session submitted is validly nested.
C7_IncompleteNotSubmitted == [][C7_Step]_vars /\ []C7_Submitted
\* a buffer was held back as Incomplete and submitted once it was closed
C7_Witness ==
    /\ Len(SessionLines) > 0
    /\ Last(history) = <<"(", NL, ")">>
    /\ pc = "readline"

\* C8: a buffer with a closing symbol that does not match the open symbol
\* before it, or has none before it, is Invalid whatever follows: every buffer
\* that no closing symbols can complete is classified Invalid.
C8_MismatchInvalid ==
    (validation # "none" /\ ~Completable(Brackets(buffer))) => validation = "Invalid"
\* a mismatch followed by a nested pair
C8_Witness == validation = "Invalid" /\ buffer = <<"(", "]", "(", ")">>

\* C9: every buffer whose grouping symbols are validly nested is Valid.
C9_BalancedValid ==
    (validation # "none" /\ Balanced(Brackets(buffer))) => validation = "Valid"
\* a pair nested in a pair that spans two lines
C9_Witness == validation = "Valid" /\ buffer = <<"(", NL, "[", "]">> \o <<")">>

\* C10: after an evaluation, of a line or of a file, an error is on standard
\* error tagged Uncaught with nothing on standard output, and a result is on
\* standard output.
C10_EvalErrorsUncaught ==
    evalRuns = 1 =>
        IF result.ok
        THEN \E i \in 1..Len(stdout) : stdout[i].text = result.val
        ELSE /\ stdout = <<>>
             /\ \E i \in 1..Len(stderr) :
                    stderr[i].text = <<"Uncaught", ": ">> \o result.val

\* C11: after a dump, of a line or of a file: when tokenizing failed, or
\* parsing failed for a tree dump, the dump failed, its message is on standard
\* error and nothing is on standard output; whatever is on standard output was
\* written after every stage the dump target needs had succeeded.
C11_DumpErrorsSuppressOutput ==
    (dumpRuns = 1 /\ line # ExitCmd) =>
        LET toks == Lexer_lex(line)
            stagesOk == /\ toks.ok
                        /\ args.dump_ast.is_some => Parser_parse_all(toks.val).ok
        IN  /\ ~stagesOk => ~result.ok
            /\ ~result.ok =>
                  /\ stdout = <<>>
                  /\ \E i \in 1..Len(stderr) : stderr[i].text = result.val
            /\ stdout # <<>> => stagesOk
\* a tree dump of a line that lexes and does not parse
C11_Witness ==
    /\ pc = "readline" /\ dumpRuns = 1 /\ args.dump_ast.is_some
    /\ ~result.ok /\ result.val[1] = "ParsingError: "
    /\ stdout = <<>> /\ stderr # <<>>

\* a dump step that ends in an error
C12_Step ==
    (dumpRuns' = dumpRuns + 1 /\ ~result'.ok) =>
        /\ result'.val[1] \in {"SyntaxError: ", "ParsingError: "}
        /\ history' = history
        /\ engine' = engine
        /\ store' = store
        /\ exit' = "running"
        /\ pc = "dispatch" =>
              /\ pc' = "readline"
              /\ history # <<>> /\ Last(history) = line
        /\ pc = "file_dispatch" =>
              /\ pc' = "files"
              /\ fileIdx' = fileIdx + 1

\* after any dispatch the loop is where the next input is read
C12_NextIsRead ==
    /\ (pc = "files" /\ fileIdx <= Len(args.files)) =>
           ENABLED (ReadFileOk \/ ReadFileErr)
    /\ (pc = "readline" /\ TypedChunks < MaxChunks) =>
           \A c \in Keys : ENABLED TypeChunk(c)

\* C12: a SyntaxError or ParsingError in a dump ends only that dump: the
\* history keeps the line and is unchanged by the step, the engine is
\* unchanged, and the run goes on to read the next line (in file mode, to
\* the next file) instead of ending.
C12_DumpErrorAbortsOnlyLine == [][C12_Step]_vars /\ []C12_NextIsRead
\* a second line is being dispatched after the dump of the first one failed
C12_Witness ==
    /\ pc = "dispatch" /\ DumpConfigured
    /\ Len(SessionLines) = 2
    /\ ~dump(SessionLines[1], args).res.ok
    /\ dumpRuns = 0

\* the loop has ended and save_history has not been called yet
LoopEnded == pc = "save"

\* the store is written, and the flush made, by one step only
C13_Step ==
    /\ store' # store =>
          /\ pc = "save" /\ flush = "none"
          /\ store'.entries = history
    /\ flush' # flush =>
          /\ pc = "save" /\ flush = "none" /\ pc' = "done"
          /\ lastRead \in {"Ok", "Interrupted", "Eof", "Error"}
          /\ lastRead = "Ok" => line = ExitCmd
    /\ flush # "none" => UNCHANGED <<flush, store, history>>
    /\ (LoopEnded /\ ~LoopEnded') => flush' # "none"

\* no flush while lines are read, and none is missing once the session is over
C13_Flushed ==
    /\ pc \in {"readline", "dispatch", "save"} => flush = "none"
    /\ (pc = "done" /\ args.files = <<>>) => flush # "none"
    /\ args.files # <<>> => flush = "none"

\* C13: an interactive session whose loop has ended (by .exit, interrupt,
\* end of input or an unknown read error) eventually performs the flush of
\* the history, exactly once and only after the loop has ended; while lines
\* are read the store is not written (an append is in memory only).
C13_FlushOnceAtEnd ==
    /\ [][C13_Step]_vars
    /\ []C13_Flushed
    /\ LoopEnded ~> (flush # "none")
\* the session ended on an unknown read error after one line, and was flushed
C13_Witness ==
    /\ pc = "done" /\ flush = "ok" /\ lastRead = "Error"
    /\ Len(SessionLines) = 1
    /\ store.entries = history

\* h is an initial part of g
IsPrefix(h, g) == Len(h) <= Len(g) /\ SubSeq(g, 1, Len(h)) = h

\* what a step of the session may do to the history
C14_Step ==
    /\ IsPrefix(history, history')
    /\ pc # "files" =>
          /\ Len(history') <= Len(history) + 1
          /\ history' # history => (pc = "readline" /\ pc' = "dispatch")
    /\ (pc = "readline" /\ pc' = "dispatch") =>
          /\ line' = buffer
          /\ history' = Append(history, line')

\* C14: during a session the history only grows at its end: no step removes,
\* rewrites or reorders an entry, and each submitted line adds exactly one
\* entry, itself, at the end (so the entries are in submission order).
C14_HistoryAppendOnly == [][C14_Step]_vars
\* two different lines were submitted after a loaded entry
C14_Witness ==
    /\ loaded = 1 /\ Len(SessionLines) = 2
    /\ history = <<history[1], <<LetX>>, <<UseX>>>>
    /\ pc = "readline"

\* the session is about to start and its log cannot be loaded
LoadWillFail == pc = "files" /\ args.files = <<>> /\ ~load_history(store).ok

\* the step that starts such a session
C16_Step ==
    (LoadWillFail /\ pc' # pc) =>
        /\ history' = <<>>
        /\ pc' = "readline"
        /\ exit' = "running"
        /\ UNCHANGED <<stdout, stderr, store, engine>>

\* C16: a missing or unreadable history log at session start is tolerated:
\* the session starts with an empty history, nothing is printed and no error
\* or panic ends the run, and the interactive loop is entered (and can be).
C16_LoadFailureAbsorbed ==
    /\ [][C16_Step]_vars
    /\ [](LoadWillFail => ENABLED EnterInteractive)
\* a session over an unreadable log that has taken its first line
C16_Witness ==
    /\ store.state = "unreadable" /\ loaded = 0
    /\ pc = "readline" /\ Len(history) = 1
    /\ exit = "running"

\* the number of dispatches of the input last read
Dispatches == dumpRuns + evalRuns
\* the interactive loop has been entered
InLoop == pc \in {"readline", "dispatch", "save"} \/ flush # "none"

\* C17, as stated: when files are given each of them is read and dispatched,
\* so a run over files ends with every file dispatched.
C17_EveryFileDispatched ==
    (args.files # <<>> /\ pc = "done") => fileIdx = Len(args.files) + 1

\* files are taken one at a time, in the order given
C17_Step ==
    /\ (pc = "files" /\ pc' = "file_dispatch") =>
          /\ line' = read_to_string(args.files[fileIdx]).text
          /\ fileIdx' = fileIdx
          /\ Dispatches' = 0
    /\ pc = "file_dispatch" =>
          /\ Dispatches = 0 /\ Dispatches' = 1
          /\ line = read_to_string(args.files[fileIdx]).text
          /\ fileIdx' = fileIdx + 1
          /\ pc' = "files"
    /\ fileIdx' # fileIdx => pc = "file_dispatch"

\* which mode a run is in, and how a run over files ends
C17_Modes ==
    /\ args.files # <<>> =>
          /\ ~InLoop
          /\ history = <<>> /\ lastRead = "none"
          /\ fileIdx \in 1..(Len(args.files) + 1)
          /\ \A i \in 1..(fileIdx - 1) : read_to_string(args.files[i]).ok
          /\ exit = "Ok" => fileIdx = Len(args.files) + 1
          /\ (pc = "done" /\ exit # "Ok") =>
                /\ exit = "Err"
                /\ fileIdx <= Len(args.files)
                /\ ~read_to_string(args.files[fileIdx]).ok
    /\ args.files = <<>> =>
          /\ pc # "file_dispatch" /\ fileIdx = 1
          /\ pc = "files" => ENABLED EnterInteractive
          /\ pc # "files" => InLoop

\* C17 (amended): when files are given they are read fully and dispatched in
\* the order given, one dispatch per file, up to the first file that cannot
\* be read (the run ends there with that error); a run over files that ends
\* Ok has dispatched every file, and never enters the interactive loop; the
\* loop is entered if and only if no file is given.
C17_FilesInOrderOrLoop == [][C17_Step]_vars /\ []C17_Modes
\* two files were dispatched in order: the second one saw the first's binding
C17_Witness ==
    /\ args.files = <<"let.js", "use.js">>
    /\ pc = "done" /\ exit = "Ok" /\ fileIdx = 3
    /\ evalRuns = 1 /\ result.ok

\* the engine after the first k files were evaluated in order
RECURSIVE EngineAfter(_)
EngineAfter(k) ==
    IF k = 0 THEN Interpreter_new
    ELSE forward_val(EngineAfter(k - 1), read_to_string(args.files[k]).text).engine

\* the file at fileIdx cannot be read
ReadWillFail ==
    /\ pc = "files" /\ fileIdx <= Len(args.files)
    /\ ~read_to_string(args.files[fileIdx]).ok

\* the failing read ends the run, and nothing follows it
C20_Step ==
    /\ ReadWillFail =>
          /\ pc' = "done" /\ exit' = "Err"
          /\ UNCHANGED <<fileIdx, engine, line, history, store, flush,
                         dumpRuns, evalRuns, stdout, stderr>>
    /\ exit = "Err" => UNCHANGED vars

\* the state main returns the error in
C20_Stopped ==
    exit = "Err" =>
        /\ pc = "done"
        /\ fileIdx \in 1..Len(args.files)
        /\ ~read_to_string(args.files[fileIdx]).ok
        /\ \A i \in 1..(fileIdx - 1) : read_to_string(args.files[i]).ok
        /\ ~has_dump_flag(args) => engine = EngineAfter(fileIdx - 1)
        /\ fileIdx > 1 =>
              /\ line = read_to_string(args.files[fileIdx - 1]).text
              /\ Dispatches = 1
        /\ fileIdx = 1 => (Dispatches = 0 /\ engine = Interpreter_new)
        /\ ~InLoop /\ history = <<>> /\ loaded = 0 /\ lastRead = "none"
        /\ buffer = <<>> /\ flush = "none"

\* C20: in file mode a file that cannot be read stops the run at that file:
\* the files before it were dispatched in order, that file and the later
\* ones are never dispatched, the loop and the history are untouched, and
\* main returns the I/O error (no panic).
C20_ReadFailureStopsRun ==
    /\ [][C20_Step]_vars
    /\ []C20_Stopped
    /\ [](args.files # <<>> => exit # "panic")
\* the second file is missing; the first one was evaluated and bound x
C20_Witness ==
    /\ exit = "Err" /\ pc = "done"
    /\ args.files = <<"let.js", "gone.js">>
    /\ fileIdx = 2 /\ "x" \in engine

\* C15: when a session that submitted l1..ln ended with a successful flush,
\* a new session over the same store has l1..ln, in that order, as the last
\* entries it loaded: in its history, and before every line it submits.
C15_HistoryPersists ==
    (prior.session = 2 /\ pc # "files") =>
        LET n == Len(prior.lines) IN
        /\ loaded >= n
        /\ SubSeq(history, loaded - n + 1, loaded) = prior.lines
        /\ Len(history) >= loaded
\* the second session has added a line after the two of the first session
C15_Witness ==
    /\ prior.session = 2
    /\ prior.lines = << <<LetX>>, <<UseX>> >>
    /\ Len(SessionLines) = 1 /\ SessionLines[1] # <<UseX>>
    /\ pc = "readline"

\* a style marker opens only outside a styled span, and every span is closed
RECURSIVE WellWrapped(_, _)
WellWrapped(out, open) ==
    IF out = <<>> THEN ~open
    ELSE IF out[1] = Reset THEN open /\ WellWrapped(Tail(out), FALSE)
    ELSE IF out[1] \in Markers THEN ~open /\ WellWrapped(Tail(out), TRUE)
    ELSE WellWrapped(Tail(out), open)

\* C18: highlighting keeps the text: with the style markers stripped, what
\* is shown for a line is exactly the line, and what was added is only
\* markers wrapped around spans of it.
C18_ContentPreserved ==
    shown # NotShown =>
        /\ strip(shown) = buffer
        /\ WellWrapped(shown, FALSE)
\* a keyword after a digit, styled, between characters that are not
C18_Witness ==
    /\ buffer = <<"1", "d", "o", "(">>
    /\ shown = <<"1", YellowBold, "d", "o", Reset, "(">>

\* C19: every operator character of a line is shown in the Operator style,
\* and a span matched as an identifier holds only $, _, letters and, after
\* its first character, digits: no operator or grouping character is part
\* of an identifier.
C19_OperatorsStyled ==
    shown # NotShown =>
        /\ \A i \in 1..Len(shown) :
              shown[i] \in OpChars =>
                  /\ i > 1 /\ shown[i - 1] = Green
                  /\ i < Len(shown) /\ shown[i + 1] = Reset
        /\ LET cs == Captures(buffer, 1) IN
           \A k \in 1..Len(cs) :
              cs[k].group = "identifier" =>
                  /\ cs[k].text[1] \in {"$", "_"} \cup Upper \cup Lower
                  /\ \A j \in 1..Len(cs[k].text) :
                        cs[k].text[j] \in {"$", "_"} \cup Upper \cup Lower \cup Digits

====
